---- MODULE Spec2Model ----
(***************************************************************************)
(* Model of the defect-history ("last encountered") feature of the         *)
(* umime-to-python-linter-analysis notebooks:                              *)
(*   sample_collection.ipynb          log loading cell, random sample cell *)
(*   survey_sample_collection.ipynb   filter cells, create_export_dataframes*)
(*   ipython_old.ipynb, frequent_defects.ipynb   log loading cell, the    *)
(*       histogram cells, the thresholded co-occurrence cell and the       *)
(*       defect severity cell                                              *)
(*                                                                         *)
(* A pandas Series is a sequence; position p of the Series (0-based) is    *)
(* element p + 1 of the sequence.  A float cell is a set: {} is NaN and    *)
(* {v} is the number v, so that arithmetic on NaN yields NaN.              *)
(* Boolean indexing df[mask] is SelectSeq: the rows that satisfy the mask,  *)
(* in their order.                                                         *)
(***************************************************************************)
EXTENDS Integers, Sequences, FiniteSets, TLC

\* ------------------------------------------------------------------ bounds
\* longest boolean column the scan specification draws
MaxLen == 8

\* ------------------------------------------------------- pandas primitives
NaN == {}

\* RangeIndex(n): the index left by reset_index(drop=True), labels 0..n-1
RangeIndex(n) == [i \in 1..n |-> i - 1]

\* Series.cumsum() of a boolean Series: running count of True values
RECURSIVE CountTrue(_, _)
CountTrue(col, i) ==
    IF i = 0 THEN 0 ELSE CountTrue(col, i - 1) + (IF col[i] THEN 1 ELSE 0)

Cumsum(col) == [i \in 1..Len(col) |-> CountTrue(col, i)]

\* Series.where(cond): the value where cond is True, NaN elsewhere
Where(s, cond) == [i \in 1..Len(s) |-> IF cond[i] THEN {s[i]} ELSE NaN]

\* Series.ffill(): a NaN cell takes the closest non-NaN cell before it
RECURSIVE FfillAt(_, _)
FfillAt(s, i) ==
    IF i = 0 THEN NaN
    ELSE IF s[i] # NaN THEN s[i] ELSE FfillAt(s, i - 1)

Ffill(s) == [i \in 1..Len(s) |-> FfillAt(s, i)]

\* Index - Series, elementwise; NaN propagates
IndexMinus(index, s) ==
    [i \in 1..Len(s) |-> {index[i] - x : x \in s[i]}]

\* Series.iloc[-1]
ILocLast(s) == s[Len(s)]

\* defect_history[defect].cumsum().where(defect_history[defect]).ffill()
CarriedByPosition(col) == Ffill(Where(RangeIndex(Len(col)), col))
Carried(col) == Ffill(Where(Cumsum(col), col))

\* defect_history.index - <carried>
SinceLast(col) == IndexMinus(RangeIndex(Len(col)), Carried(col))

\* (defect_history.index - ...cumsum().where(...).ffill()).iloc[-1]
LastEncountered(col) == ILocLast(SinceLast(col))

\* ------------------------------------------------------------ input data
\* most rows of log.csv the notebook specification draws
MaxRows == 2

\* rows drawn by log[...].sample(20) / log.sample(sample_size): the code's 20,
\* scaled to the size of the logs drawn here
SampleSize == 1

Users == {1, 2}
Items == {1, 2}
Times == {1, 2}
Defects == {1, 2, 3}

\* defects.csv: the 'severity' column
Severity == <<2, 2, 5>>

\* pd.to_datetime of a missing cell: NaT, which is none of the Times
NaT == 0

\* a row of log.csv after the unused columns are dropped; its label is its
\* row number in the file
Row == [user : Users, item : Items, time : Times, correct : {TRUE}]

\* a row of log.csv whose time cell may be missing and whose answer may be
\* incorrect
RawRow == [user : Users, item : Items, time : Times \cup {NaT},
           correct : BOOLEAN]

Notebooks == {"sample_collection", "survey_sample_collection"}

\* the notebooks whose loading cell keeps the first answer of a session, and
\* the notebooks that load log.csv themselves
FirstNotebooks == {"ipython_old", "frequent_defects"}

LoadNotebooks == {"sample_collection"} \cup FirstNotebooks

\* --------------------------------------------------------------- variables
VARIABLES
    column,           \* defect_history[defect]: the boolean column scanned
    carried,          \* cumsum().where().ffill() of the column
    since,            \* defect_history.index - carried
    last_encountered, \* the .iloc[-1] of since
    scan_pc,          \* how far the expression has been evaluated
    nb,               \* the notebook that is run
    pc,               \* the next cell of the notebook
    log_csv,          \* log.csv: sequence of rows
    message_log,      \* message_log.csv: label -> defect ids of its messages
    items,            \* index of the items table
    log,              \* the log DataFrame: its index labels, in row order
    defect_log,       \* the defect_log DataFrame: label -> flagged defects
    indexes,          \* the sampled labels still to export
    idx,              \* the submission exported last
    history_index,    \* the index defect_log.loc[...] was given for idx
    defect_history,   \* defect_history: rows of flagged defects, RangeIndex
    defect_df,        \* the rows appended to defect_df
    row_values,       \* has_close_pair: row.values of the row it is given
    close_pair,       \* has_close_pair: the value returned
    pair_pc,          \* has_close_pair: called or not yet
    sums,             \* defect_log.sum(axis=1): defects of each submission
    bars,             \* the heights handed to ax.bar
    hist_pc,          \* which histogram cell has run
    co_occurances,    \* one cell of the co-occurrence matrix
    thresholded,      \* the same cell of thresholded
    thresh_pc,        \* the next threshold assignment
    use_counts,       \* the notebook's use_counts flag
    count_log,        \* defect_log with counts: submission -> defect -> count
    defect_counts,    \* the defect_counts DataFrame: its rows in index order
    dist_pc           \* how far the defect severity cell has run

scanvars == <<column, carried, since, last_encountered, scan_pc>>

nbvars == <<nb, pc, log_csv, message_log, items, log, defect_log, indexes,
            idx, history_index, defect_history, defect_df>>

pairvars == <<row_values, close_pair, pair_pc>>

histvars == <<sums, bars, hist_pc>>

threshvars == <<co_occurances, thresholded, thresh_pc>>

distvars == <<use_counts, count_log, defect_counts, dist_pc>>

plotvars == <<histvars, threshvars, distvars>>

vars == <<scanvars, nbvars, pairvars, plotvars>>

\* ------------------------------------------------------------ table helpers
Range(s) == {s[i] : i \in 1..Len(s)}

Max(S) == CHOOSE x \in S : \A y \in S : y <= x

\* every arrangement of the set S as a sequence without repetition
Arrangements(S) ==
    {s \in [1..Cardinality(S) -> S] : \A i, j \in 1..Cardinality(S) :
                                          s[i] = s[j] => i = j}

\* the elements of a set of integers in ascending order
RECURSIVE Ascending(_)
Ascending(S) ==
    IF S = {} THEN <<>> ELSE Ascending(S \ {Max(S)}) \o <<Max(S)>>

\* ------------------------------------------------------------ loading cells
\* log.dropna(inplace=True): the rows without a missing cell
DropNaKeepAll(csv) == 1..Len(csv)
DropNa(csv) == {i \in 1..Len(csv) : csv[i].time # NaT}

\* log = log[log["correct"]]
OnlyCorrect(csv) == {i \in 1..Len(csv) : csv[i].correct}

\* log.reset_index().groupby(["user", "item"], as_index=False).last()
\*    .set_index("index"): one row per (user, item), the last of the group in
\* file order, the groups in ascending key order
KeyBefore(a, b) ==
    a.user < b.user \/ (a.user = b.user /\ a.item < b.item)

GroupLast(csv, labels) ==
    LET last == {i \in labels :
                    \A j \in labels :
                        (csv[j].user = csv[i].user /\ csv[j].item = csv[i].item)
                            => j <= i}
    IN  CHOOSE s \in Arrangements(last) :
            \A i, j \in 1..Len(s) : i < j => KeyBefore(csv[s[i]], csv[s[j]])

\* log.reset_index().groupby(["user", "item"]).first().set_index("index")
\* (ipython_old, frequent_defects): the first row of each group in file order
GroupFirstTakesLast(csv, labels) == GroupLast(csv, labels)
GroupFirst(csv, labels) ==
    LET first == {i \in labels :
                     \A j \in labels :
                         (csv[j].user = csv[i].user /\ csv[j].item = csv[i].item)
                             => i <= j}
    IN  CHOOSE s \in Arrangements(first) :
            \A i, j \in 1..Len(s) : i < j => KeyBefore(csv[s[i]], csv[s[j]])

\* DataFrame.sort_values(by='time'): the default sort kind is not stable, so
\* rows with equal time may come out in any order
SortValuesUnsorted(csv, s) == {s}
SortValues(csv, s) ==
    {r \in Arrangements(Range(s)) :
        \A i, j \in 1..Len(r) : i < j => csv[r[i]].time <= csv[r[j]].time}

\* items.loc[items.index.isin((log["item"].value_counts() > 100).index)]:
\* the index of the comparison holds every item of the log
KeepItems(csv, its, lg) == its \cap {csv[i].item : i \in Range(lg)}

\* log[log["item"].isin(items.index)]
FilterLog(csv, its, lg) == SelectSeq(lg, LAMBDA i : csv[i].item \in its)

\* pd.crosstab(messages["log entry"], messages["defect"])
\*    .reindex(log.index, fill_value=0) > 0
VectorizeCrosstabOnly(msgs, lg) ==
    [i \in {j \in Range(lg) : msgs[j] # {}} |-> msgs[i]]
Vectorize(msgs, lg) == [i \in Range(lg) |-> msgs[i]]

\* ---------------------------------------------- survey_sample_collection
\* defect_log[defect_log.sum(axis=1) > 1]
AtLeastTwo(dl, lg) == SelectSeq(lg, LAMBDA i : Cardinality(dl[i]) > 1)

\* the columns of defect_log: the defects of the crosstab
ColumnsOf(dl) == UNION {dl[i] : i \in DOMAIN dl}

\* filtered *= defects.loc[filtered.columns]['severity']
SeverityRow(dl, i) ==
    [d \in ColumnsOf(dl) |-> IF d \in dl[i] THEN Severity[d] ELSE 0]

Abs(x) == IF x < 0 THEN -x ELSE x

\* np.any(np.abs(row_values[:, None] - row_values) <= 1)
has_close_pair(row) ==
    \E a \in DOMAIN row : \E b \in DOMAIN row : Abs(row[a] - row[b]) <= 1

\* filtered[filtered.apply(has_close_pair, axis=1)]
Filtered(dl, lg) ==
    SelectSeq(AtLeastTwo(dl, lg),
              LAMBDA i : has_close_pair(SeverityRow(dl, i)))

\* ------------------------------------------------------------- export loop
\* log[(log['user'] == row['user']) & (log['time'] <= row['time'])]
StudentRowsAnyUser(csv, lg, target) ==
    SelectSeq(lg, LAMBDA i : csv[i].time <= csv[target].time)
StudentRows(csv, lg, target) ==
    SelectSeq(lg, LAMBDA i : /\ csv[i].user = csv[target].user
                              /\ csv[i].time <= csv[target].time)

\* defect_history[defect]
ColumnOf(history, defect) ==
    [i \in 1..Len(history) |-> defect \in history[i]]

\* the rows appended to defect_df for one submission, in column order
DefectRowsCarryOver(target, history, flagged) ==
    [n \in 1..Len(flagged) |->
        [submission |-> target,
         defect |-> flagged[n],
         last_encountered |-> LastEncountered(ColumnOf(history, flagged[1]))]]
DefectRowsAllColumns(target, history, flagged) ==
    [n \in 1..Len(Ascending(Defects)) |->
        [submission |-> target,
         defect |-> Ascending(Defects)[n],
         last_encountered |->
            LastEncountered(ColumnOf(history, Ascending(Defects)[n]))]]
DefectRows(target, history, flagged) ==
    [n \in 1..Len(flagged) |->
        [submission |-> target,
         defect |-> flagged[n],
         last_encountered |-> LastEncountered(ColumnOf(history, flagged[n]))]]

\* ------------------------------------------------- the scan, on its own
\* every boolean column of 1..MaxLen submissions (the target included)
Columns == UNION {[1..n -> BOOLEAN] : n \in 1..MaxLen}

NotebookIdle ==
    /\ nb = "none"
    /\ pc = "idle"
    /\ log_csv = <<>>
    /\ message_log = <<>>
    /\ items = {}
    /\ log = <<>>
    /\ defect_log = <<>>
    /\ indexes = <<>>
    /\ idx = 0
    /\ history_index = <<>>
    /\ defect_history = <<>>
    /\ defect_df = <<>>

ScanIdle ==
    /\ column = <<>>
    /\ carried = <<>>
    /\ since = <<>>
    /\ last_encountered = NaN
    /\ scan_pc = "idle"

PairIdle ==
    /\ row_values = <<>>
    /\ close_pair = FALSE
    /\ pair_pc = "idle"

HistIdle ==
    /\ sums = <<>>
    /\ bars = <<>>
    /\ hist_pc = "idle"

ThreshIdle ==
    /\ co_occurances = 0
    /\ thresholded = 0
    /\ thresh_pc = "idle"

DistIdle ==
    /\ use_counts = FALSE
    /\ count_log = <<>>
    /\ defect_counts = <<>>
    /\ dist_pc = "idle"

PlotIdle == HistIdle /\ ThreshIdle /\ DistIdle

ScanInit ==
    /\ column \in Columns
    /\ carried = <<>>
    /\ since = <<>>
    /\ last_encountered = NaN
    /\ scan_pc = "start"
    /\ NotebookIdle
    /\ PairIdle
    /\ PlotIdle

\* defect_history[defect].cumsum().where(defect_history[defect]).ffill()
Carry ==
    /\ scan_pc = "start"
    /\ carried' = Carried(column)
    /\ scan_pc' = "carried"
    /\ UNCHANGED <<column, since, last_encountered, nbvars, pairvars, plotvars>>

\* defect_history.index - (...)
Subtract ==
    /\ scan_pc = "carried"
    /\ since' = IndexMinus(RangeIndex(Len(column)), carried)
    /\ scan_pc' = "subtracted"
    /\ UNCHANGED <<column, carried, last_encountered, nbvars, pairvars, plotvars>>

\* (...).iloc[-1]
ReadLast ==
    /\ scan_pc = "subtracted"
    /\ last_encountered' = ILocLast(since)
    /\ scan_pc' = "done"
    /\ UNCHANGED <<column, carried, since, nbvars, pairvars, plotvars>>

ScanNext == Carry \/ Subtract \/ ReadLast

SpecScan == ScanInit /\ [][ScanNext]_vars

\* ------------------------------------------------------- the notebook run
Init ==
    /\ ScanIdle
    /\ PairIdle
    /\ PlotIdle
    /\ nb \in Notebooks
    /\ pc = "load"
    /\ log_csv \in UNION {[1..n -> Row] : n \in 1..MaxRows}
    /\ message_log \in [1..Len(log_csv) -> SUBSET Defects]
    /\ items = Items
    /\ log = <<>>
    /\ defect_log = <<>>
    /\ indexes = <<>>
    /\ idx = 0
    /\ history_index = <<>>
    /\ defect_history = <<>>
    /\ defect_df = <<>>

\* the loading cells: the log, the item filter, the defect vectors
LoadData ==
    /\ pc = "load"
    /\ \E sorted \in
            IF nb \in FirstNotebooks
            THEN {GroupFirst(log_csv,
                             DropNa(log_csv) \cap OnlyCorrect(log_csv))}
            ELSE SortValues(log_csv,
                   GroupLast(log_csv, DropNa(log_csv) \cap OnlyCorrect(log_csv))) :
          LET kept == IF nb = "frequent_defects" THEN items
                      ELSE KeepItems(log_csv, items, sorted)
              lg == FilterLog(log_csv, kept, sorted)
          IN  /\ items' = kept
              /\ log' = lg
              /\ defect_log' = Vectorize(message_log, lg)
    /\ pc' = IF nb = "survey_sample_collection" THEN "filter"
             ELSE IF nb \in FirstNotebooks THEN "explore" ELSE "sample"
    /\ UNCHANGED <<scanvars, pairvars, plotvars, nb, log_csv, message_log, indexes, idx,
                   history_index, defect_history, defect_df>>

\* survey_sample_collection: the filter cells and "apply the filter"
ApplyFilter ==
    /\ pc = "filter"
    /\ log' = Filtered(defect_log, log)
    /\ defect_log' = [i \in Range(log') |-> defect_log[i]]
    /\ pc' = "sample"
    /\ UNCHANGED <<scanvars, pairvars, plotvars, nb, log_csv, message_log, items, indexes, idx,
                   history_index, defect_history, defect_df>>

\* the rows the sample is drawn from
Population ==
    IF nb = "survey_sample_collection" THEN Range(log)
    ELSE {i \in Range(log) : Cardinality(defect_log[i]) >= 2}

\* .sample(...): SampleSize rows drawn without replacement
Sample ==
    /\ pc = "sample"
    /\ Cardinality(Population) >= SampleSize
    /\ \E S \in SUBSET Population :
          /\ Cardinality(S) = SampleSize
          /\ indexes' \in Arrangements(S)
    /\ pc' = "export"
    /\ UNCHANGED <<scanvars, pairvars, plotvars, nb, log_csv, message_log, items, log, defect_log,
                   idx, history_index, defect_history, defect_df>>

\* .sample(...) of more rows than there are raises ValueError
SampleTooLarge ==
    /\ pc = "sample"
    /\ Cardinality(Population) < SampleSize
    /\ pc' = "error"
    /\ UNCHANGED <<scanvars, pairvars, plotvars, nb, log_csv, message_log, items, log, defect_log,
                   indexes, idx, history_index, defect_history, defect_df>>

\* one pass of the loop body: the submission's history and its defect rows
ExportSubmissionInPlace ==
    /\ pc = "export"
    /\ indexes # <<>>
    /\ idx' = Head(indexes)
    /\ indexes' = Tail(indexes)
    /\ history_index' \in SortValues(log_csv, StudentRows(log_csv, log, idx'))
    /\ log' = history_index'
    /\ defect_history' =
          [i \in 1..Len(history_index') |-> defect_log[history_index'[i]]]
    /\ defect_df' = defect_df \o
          DefectRows(idx', defect_history', Ascending(defect_log[idx']))
    /\ UNCHANGED <<scanvars, pairvars, plotvars, nb, pc, log_csv, message_log, items,
                   defect_log>>
ExportSubmission ==
    /\ pc = "export"
    /\ indexes # <<>>
    /\ idx' = Head(indexes)
    /\ indexes' = Tail(indexes)
    /\ history_index' \in SortValues(log_csv, StudentRows(log_csv, log, idx'))
    /\ defect_history' =
          [i \in 1..Len(history_index') |-> defect_log[history_index'[i]]]
    /\ defect_df' = defect_df \o
          DefectRows(idx', defect_history', Ascending(defect_log[idx']))
    /\ UNCHANGED <<scanvars, pairvars, plotvars, nb, pc, log_csv, message_log, items, log,
                   defect_log>>

\* pd.DataFrame(defect_df) once the loop has ended
Finish ==
    /\ pc = "export"
    /\ indexes = <<>>
    /\ pc' = "done"
    /\ UNCHANGED <<scanvars, pairvars, plotvars, nb, log_csv, message_log, items, log, defect_log,
                   indexes, idx, history_index, defect_history, defect_df>>

Next ==
    LoadData \/ ApplyFilter \/ Sample \/ SampleTooLarge \/ ExportSubmission
        \/ Finish

Spec == Init /\ [][Next]_vars

\* ------------------------------------------- the loading cells, on their own
\* log.csv with missing time cells and incorrect answers; no linter messages
LoadInit ==
    /\ ScanIdle
    /\ PairIdle
    /\ PlotIdle
    /\ nb \in LoadNotebooks
    /\ pc = "load"
    /\ log_csv \in UNION {[1..n -> RawRow] : n \in 1..MaxRows}
    /\ message_log = [i \in 1..Len(log_csv) |-> {}]
    /\ items = Items
    /\ log = <<>>
    /\ defect_log = <<>>
    /\ indexes = <<>>
    /\ idx = 0
    /\ history_index = <<>>
    /\ defect_history = <<>>
    /\ defect_df = <<>>

LoadNext == LoadData \/ SampleTooLarge

SpecLoad == LoadInit /\ [][LoadNext]_vars

\* ------------------------------------------------ has_close_pair, on its own
\* most columns of a row handed to has_close_pair
MaxCols == 3

\* highest severity level of defects.csv; 0 is the cell of an unflagged defect
MaxSeverity == 5

PairInit ==
    /\ ScanIdle
    /\ NotebookIdle
    /\ PlotIdle
    /\ row_values \in UNION {[1..n -> 0..MaxSeverity] : n \in 1..MaxCols}
    /\ close_pair = FALSE
    /\ pair_pc = "start"

\* filtered.apply(has_close_pair, axis=1), one row
CallHasClosePair ==
    /\ pair_pc = "start"
    /\ close_pair' = has_close_pair(row_values)
    /\ pair_pc' = "done"
    /\ UNCHANGED <<scanvars, nbvars, plotvars, row_values>>

PairNext == CallHasClosePair

SpecPair == PairInit /\ [][PairNext]_vars

\* ------------------------------------------------- the histogram cells
\* most submissions in defect_log, and most distinct defects of a submission
MaxSubmissions == 6

MaxDefectCount == 5

\* number of rows of the Series s that hold v
Occurrences(s, v) == Cardinality({k \in 1..Len(s) : s[k] = v})

\* the orders value_counts() can list the values S in: by descending count,
\* values with equal counts in any order
RECURSIVE FrequencyOrders(_, _)
FrequencyOrders(s, S) ==
    IF S = {} THEN {<<>>}
    ELSE UNION {{<<v>> \o r : r \in FrequencyOrders(s, S \ {v})} :
                  v \in {v \in S : \A w \in S :
                                      Occurrences(s, w) <= Occurrences(s, v)}}

\* Series.value_counts(): index = the distinct values, n = their counts
ValueCounts(s) ==
    {[k \in 1..Len(order) |->
         [index |-> order[k], n |-> Occurrences(s, order[k])]] :
        order \in FrequencyOrders(s, Range(s))}

\* sum of the first k rows of a value_counts() Series
RECURSIVE SumOfFirst(_, _)
SumOfFirst(counts, k) ==
    IF k = 0 THEN 0 ELSE SumOfFirst(counts, k - 1) + counts[k].n

\* Series.cumsum(): the running sum in row order, under the same index
SeriesCumsum(counts) ==
    [k \in 1..Len(counts) |->
        [index |-> counts[k].index, n |-> SumOfFirst(counts, k)]]

\* counts.loc[label]
Loc(counts, label) ==
    counts[CHOOSE k \in 1..Len(counts) : counts[k].index = label].n

\* the bars of the submissions histogram: '0' .. '4' and '>=5'
Shown == 5

Min(a, b) == IF a < b THEN a ELSE b

\* list(counts[:5]) + [counts[5:].sum()]: a slice of a Series with an integer
\* index is positional
DefectCount(counts) ==
    [k \in 1..Min(Shown, Len(counts)) |-> counts[k].n]
        \o <<SumOfFirst(counts, Len(counts))
                - SumOfFirst(counts, Min(Shown, Len(counts)))>>

\* [counts.loc[idx] if idx in counts.index
\*  else counts.loc[max([j for j in counts.index if j < idx])]
\*  for idx in range(max_idx + 1)]
CumulativeCount(counts) ==
    LET index == {counts[k].index : k \in 1..Len(counts)}
    IN  [i \in 1..(Max(index) + 1) |->
            IF i - 1 \in index THEN Loc(counts, i - 1)
            ELSE Loc(counts, Max({j \in index : j < i - 1}))]

HistInit ==
    /\ ScanIdle
    /\ NotebookIdle
    /\ PairIdle
    /\ ThreshIdle
    /\ DistIdle
    /\ sums \in UNION {[1..n -> 0..MaxDefectCount] : n \in 1..MaxSubmissions}
    /\ bars = <<>>
    /\ hist_pc = "start"

\* the "# of defects" histogram cell; ax.bar raises ValueError when the
\* heights are not as many as the six labels
SubmissionsHistogram ==
    /\ hist_pc = "start"
    /\ \E counts \in ValueCounts(sums) : bars' = DefectCount(counts)
    /\ hist_pc' = IF Len(bars') = Shown + 1 THEN "submissions" ELSE "error"
    /\ UNCHANGED <<scanvars, nbvars, pairvars, threshvars, distvars, sums>>

\* the cumulative histogram cell; max([]) raises ValueError when no
\* submission has 0 defects
CumulativeHistogram ==
    /\ hist_pc = "start"
    /\ \E counts \in ValueCounts(sums) :
          IF \E k \in 1..Len(counts) : counts[k].index = 0
          THEN /\ bars' = CumulativeCount(SeriesCumsum(counts))
               /\ hist_pc' = "cumulative"
          ELSE /\ bars' = <<>>
               /\ hist_pc' = "error"
    /\ UNCHANGED <<scanvars, nbvars, pairvars, threshvars, distvars, sums>>

HistNext == SubmissionsHistogram \/ CumulativeHistogram

SpecHist == HistInit /\ [][HistNext]_vars

\* ------------------------------------- the thresholded co-occurrence cell
\* largest co-occurrence count drawn
MaxCoOccurrence == 1100

\* the thresholds of the four assignments
Low == 100

Mid == 250

High == 1000

ThreshInit ==
    /\ ScanIdle
    /\ NotebookIdle
    /\ PairIdle
    /\ HistIdle
    /\ DistIdle
    /\ co_occurances \in 0..MaxCoOccurrence
    /\ thresholded = 0
    /\ thresh_pc = "copy"

\* thresholded = co_occurances.copy()
Copy ==
    /\ thresh_pc = "copy"
    /\ thresholded' = co_occurances
    /\ thresh_pc' = "lt100"
    /\ UNCHANGED <<scanvars, nbvars, pairvars, histvars, distvars,
                   co_occurances>>

\* thresholded[thresholded < 100] = 0
AssignBelowLow ==
    /\ thresh_pc = "lt100"
    /\ thresholded' = IF thresholded < Low THEN 0 ELSE thresholded
    /\ thresh_pc' = "ge1000"
    /\ UNCHANGED <<scanvars, nbvars, pairvars, histvars, distvars,
                   co_occurances>>

\* thresholded[thresholded >= 1000] = 3
AssignFromHigh ==
    /\ thresh_pc = "ge1000"
    /\ thresholded' = IF thresholded >= High THEN 3 ELSE thresholded
    /\ thresh_pc' = "ge250"
    /\ UNCHANGED <<scanvars, nbvars, pairvars, histvars, distvars,
                   co_occurances>>

\* thresholded[thresholded >= 250] = 2
AssignAboveMid ==
    /\ thresh_pc = "ge250"
    /\ thresholded' = IF thresholded > Mid THEN 2 ELSE thresholded
    /\ thresh_pc' = "ge100"
    /\ UNCHANGED <<scanvars, nbvars, pairvars, histvars, distvars,
                   co_occurances>>
AssignFromMid ==
    /\ thresh_pc = "ge250"
    /\ thresholded' = IF thresholded >= Mid THEN 2 ELSE thresholded
    /\ thresh_pc' = "ge100"
    /\ UNCHANGED <<scanvars, nbvars, pairvars, histvars, distvars,
                   co_occurances>>

\* thresholded[thresholded >= 100] = 1
AssignFromLow ==
    /\ thresh_pc = "ge100"
    /\ thresholded' = IF thresholded >= Low THEN 1 ELSE thresholded
    /\ thresh_pc' = "done"
    /\ UNCHANGED <<scanvars, nbvars, pairvars, histvars, distvars,
                   co_occurances>>

ThreshNext ==
    Copy \/ AssignBelowLow \/ AssignFromHigh \/ AssignFromMid \/ AssignFromLow

SpecThresh == ThreshInit /\ [][ThreshNext]_vars

\* ------------------------------------------------ the defect severity cell
MAX_COUNT == 20

\* most submissions counted, and how far past MAX_COUNT their counts reach
MaxCounted == 2

MaxTail == 2

\* the defect columns of the table
CountedDefects == {1, 2}

\* the numbers of instances of a defect in a submission that are drawn
InstanceCounts == {0, 1} \cup ((MAX_COUNT - 1)..(MAX_COUNT + MaxTail))

\* number of submissions with exactly c instances of defect d
WithCount(cl, d, c) == Cardinality({k \in 1..Len(cl) : cl[k][d] = c})

\* {col: defect_counts[col][defect_counts[col] > 0].value_counts()} as a
\* DataFrame, fillna(0), the rows 1 .. MAX_COUNT - 1 added, sort_index()
CountTable(cl) ==
    LET present == {cl[k][d] : k \in 1..Len(cl), d \in CountedDefects} \ {0}
        order == Ascending(present \cup (1..(MAX_COUNT - 1)))
    IN  [p \in 1..Len(order) |->
            [index |-> order[p],
             row |-> [d \in CountedDefects |-> WithCount(cl, d, order[p])]]]

\* sum over the rows of t from position p (1-based) on, for defect d
RECURSIVE SumFrom(_, _, _)
SumFrom(t, p, d) ==
    IF p > Len(t) THEN 0 ELSE t[p].row[d] + SumFrom(t, p + 1, d)

\* defect_counts.loc[MAX_COUNT - 1] = defect_counts.iloc[MAX_COUNT:].sum(axis=0)
\* defect_counts = defect_counts.iloc[:MAX_COUNT]
TailSummed(t) ==
    [p \in 1..Min(MAX_COUNT, Len(t)) |->
        IF t[p].index = MAX_COUNT - 1
        THEN [index |-> t[p].index,
              row |-> [d \in CountedDefects |-> SumFrom(t, MAX_COUNT + 1, d)]]
        ELSE t[p]]

DistInit ==
    /\ ScanIdle
    /\ NotebookIdle
    /\ PairIdle
    /\ HistIdle
    /\ ThreshIdle
    /\ use_counts \in BOOLEAN
    /\ count_log \in UNION {[1..n -> [CountedDefects -> InstanceCounts]] :
                              n \in 1..MaxCounted}
    /\ defect_counts = <<>>
    /\ dist_pc = "start"

\* if use_counts: raise RuntimeError
RaiseRuntimeError ==
    /\ dist_pc = "start"
    /\ use_counts
    /\ dist_pc' = "error"
    /\ UNCHANGED <<scanvars, nbvars, pairvars, histvars, threshvars,
                   use_counts, count_log, defect_counts>>

\* histogram for each defect, fill empty brackets with 0
HistogramPerDefect ==
    /\ dist_pc = "start"
    /\ ~ use_counts
    /\ defect_counts' = CountTable(count_log)
    /\ dist_pc' = "tail"
    /\ UNCHANGED <<scanvars, nbvars, pairvars, histvars, threshvars,
                   use_counts, count_log>>

\* sum the tail
SumTheTail ==
    /\ dist_pc = "tail"
    /\ defect_counts' = TailSummed(defect_counts)
    /\ dist_pc' = "done"
    /\ UNCHANGED <<scanvars, nbvars, pairvars, histvars, threshvars,
                   use_counts, count_log>>

DistNext == RaiseRuntimeError \/ HistogramPerDefect \/ SumTheTail

SpecDist == DistInit /\ [][DistNext]_vars

\* ----------------------------------------------------- helpers for claims
\* position (0-based) of the target: the last row of the history
Target(col) == Len(col) - 1

\* 0-based positions at or before p where the column is flagged
FlaggedUpTo(col, p) == {j \in 0..p : col[j + 1]}

\* the defect is flagged at the target and at an earlier position
SeenBefore(col) == col[Len(col)] /\ FlaggedUpTo(col, Target(col) - 1) # {}

\* the defect is flagged at the target and at no earlier position
FirstOccurrence(col) == col[Len(col)] /\ FlaggedUpTo(col, Target(col) - 1) = {}

\* C1: when the defect is flagged at the target t and its most recent earlier
\* flagged position is k < t, the value computed for the target is t - k,
\* whatever the flags before k.
C1_SinceLastOccurrence ==
    (scan_pc = "done" /\ SeenBefore(column)) =>
        last_encountered =
            {Target(column) - Max(FlaggedUpTo(column, Target(column) - 1))}

\* C2: when the defect is flagged at the target t and at no earlier position,
\* the value computed is the target's own position index t.
C2_FirstOccurrenceIsTargetIndex ==
    (scan_pc = "done" /\ FirstOccurrence(column)) =>
        last_encountered = {Target(column)}

\* C3: the value of a first-ever occurrence never equals a value produced for a
\* history in which the defect did occur earlier.
C3_FirstOccurrenceNeverCollides ==
    (scan_pc = "done" /\ FirstOccurrence(column)) =>
        \A other \in Columns :
            SeenBefore(other) => LastEncountered(other) # last_encountered

\* C4: for the history [true] with target position 0 the value is the
\* first-occurrence fallback, the target's own index 0.
C4_SingleSubmissionHistory ==
    (scan_pc = "done" /\ column = <<TRUE>>) => last_encountered = {0}

\* C5: for the flags [1,0,0,1,0,1] the value at target 5 is 2, at target 3
\* (history truncated to 0..3) is 3, and at target 0 is the fallback 0.
C5_EndToEndScenario ==
    scan_pc = "done" =>
        /\ column = <<TRUE, FALSE, FALSE, TRUE, FALSE, TRUE>>
              => last_encountered = {2}
        /\ column = <<TRUE, FALSE, FALSE, TRUE>> => last_encountered = {3}
        /\ column = <<TRUE>> => last_encountered = {0}

\* C6: the quantity carried forward is the index of the most recent flagged
\* position at or before i, and the scan yields i minus that index at every i.
C6_CarriesPositionIndex ==
    scan_pc \in {"subtracted", "done"} =>
        \A p \in 0..Target(column) :
            FlaggedUpTo(column, p) # {} =>
                /\ carried[p + 1] = {Max(FlaggedUpTo(column, p))}
                /\ since[p + 1] = {p - Max(FlaggedUpTo(column, p))}

\* the labels of the log as the loading cells leave it
LoadedLabels ==
    {i \in Range(GroupLast(log_csv, DropNa(log_csv) \cap OnlyCorrect(log_csv))) :
        log_csv[i].item \in items}

\* a submission has been exported: idx, history_index and defect_df are its
Exported == pc \in {"export", "done"} /\ idx # 0

\* C7: the target submission is the last element of the history built for it,
\* also when another submission of the same student has the target's timestamp.
C7_TargetIsLastOfHistory ==
    Exported => history_index[Len(history_index)] = idx

\* C8: within a student's history the submissions are ordered by timestamp, and
\* submissions with equal timestamps keep their order in the log file.
C8_TiesKeepIngestionOrder ==
    Exported =>
        \A i, j \in 1..Len(history_index) :
            i < j =>
                \/ log_csv[history_index[i]].time < log_csv[history_index[j]].time
                \/ /\ log_csv[history_index[i]].time = log_csv[history_index[j]].time
                   /\ history_index[i] < history_index[j]

\* C8, amended: within a student's history the submissions are ordered by
\* non-decreasing timestamp (the order among equal timestamps is not fixed).
C8_OrderedByTime ==
    Exported =>
        \A i, j \in 1..Len(history_index) :
            i < j =>
                log_csv[history_index[i]].time <= log_csv[history_index[j]].time

\* a history of two submissions with one timestamp, the later row of the file
\* first
C8_TiedRowsOutOfFileOrder ==
    /\ Exported
    /\ \E i, j \in 1..Len(history_index) :
          /\ i < j
          /\ log_csv[history_index[i]].time = log_csv[history_index[j]].time
          /\ history_index[i] > history_index[j]

\* C9: the history of a target holds all of that student's loaded submissions
\* with timestamp <= the target's, the target included, and nothing else.
C9_HistoryIsStudentsLoadedRecords ==
    Exported =>
        /\ Range(history_index) =
              {i \in LoadedLabels : /\ log_csv[i].user = log_csv[idx].user
                                    /\ log_csv[i].time <= log_csv[idx].time}
        /\ Cardinality(Range(history_index)) = Len(history_index)

\* the message logs that differ from msgs only in the flags of defects other
\* than defect, in the non-target submissions of the target's student
OtherDefectVariants(csv, msgs, target, defect) ==
    {m \in [1..Len(csv) -> SUBSET Defects] :
        \A i \in 1..Len(csv) :
            /\ (defect \in m[i]) = (defect \in msgs[i])
            /\ (i = target \/ csv[i].user # csv[target].user) => m[i] = msgs[i]}

\* the values the notebook nbk can export for (target, defect) from these files
PossibleValues(nbk, csv, msgs, target, defect) ==
    LET grouped == GroupLast(csv, DropNa(csv) \cap OnlyCorrect(csv))
        loaded == FilterLog(csv, KeepItems(csv, Items, grouped), grouped)
        lg == IF nbk = "survey_sample_collection"
              THEN Filtered(Vectorize(msgs, loaded), loaded)
              ELSE loaded
    IN  {LastEncountered(ColumnOf([i \in 1..Len(h) |-> msgs[h[i]]], defect)) :
            h \in SortValues(csv, StudentRows(csv, lg, target))}

\* C10: the value for (target, d) is the same for two logs that differ only in
\* the flags of defects other than d in the student's non-target submissions,
\* in every notebook that computes it.
C10_IndependentOfOtherDefects ==
    Exported =>
        \A n \in 1..Len(defect_df) :
            defect_df[n].submission = idx =>
                \A m \in OtherDefectVariants(log_csv, message_log, idx,
                                             defect_df[n].defect) :
                    defect_df[n].last_encountered \in
                        PossibleValues(nb, log_csv, m, idx, defect_df[n].defect)

\* the defect flags tried for an added row: none (the survey filter drops the
\* row) and all (it keeps the row)
OtherMessages == {{}, Defects}

\* C11: the value of a submission is unaffected by the submissions of other
\* students: with any row of another student added to the log, the value is
\* the one that was exported.
C11_UnaffectedByOtherStudents ==
    Exported =>
        \A n \in 1..Len(defect_df) :
            defect_df[n].submission = idx =>
                \A r \in RawRow : \A m \in OtherMessages :
                    r.user # log_csv[idx].user =>
                        PossibleValues(nb, Append(log_csv, r),
                                       Append(message_log, m), idx,
                                       defect_df[n].defect)
                            = {defect_df[n].last_encountered}

\* a submission has been exported from a log that holds another student's row
C11_ExportedAmongOthers ==
    /\ Exported
    /\ defect_df # <<>>
    /\ \E i \in Range(log) : log_csv[i].user # log_csv[idx].user

C14_ExportLeavesTablesUnchanged ==
    [][pc = "export" =>
          /\ log' = log
          /\ defect_log' = defect_log
          /\ items' = items
          /\ log_csv' = log_csv
          /\ message_log' = message_log]_vars

\* a submission with its defect rows has been exported
C14_RowsExported == Exported /\ defect_df # <<>>

AllStudentRows(csv, lg, target) ==
    SelectSeq(lg, LAMBDA i : csv[i].user = csv[target].user)

\* C16: the value from the history truncated at the target equals the value a
\* forward pass over the student's full sorted log has at the target's position.
C16_TruncationEqualsForwardPass ==
    Exported =>
        \A n \in 1..Len(defect_df) :
            defect_df[n].submission = idx =>
                \A full \in SortValues(log_csv,
                                       AllStudentRows(log_csv, log, idx)) :
                    SubSeq(full, 1, Len(history_index)) = history_index =>
                        defect_df[n].last_encountered =
                            SinceLast(ColumnOf(
                                [i \in 1..Len(full) |-> defect_log[full[i]]],
                                defect_df[n].defect))
                              [CHOOSE k \in 1..Len(full) : full[k] = idx]

\* C17: each pass of the loop adds exactly one row for each defect flagged in
\* the exported submission, none for another defect, and no submission is
\* exported twice.
C17_OneRowPerFlaggedDefect ==
    [][(pc = "export" /\ indexes # <<>>) =>
          /\ SubSeq(defect_df', 1, Len(defect_df)) = defect_df
          /\ \A n \in 1..Len(defect_df) : defect_df[n].submission # idx'
          /\ \A n \in (Len(defect_df) + 1)..Len(defect_df') :
                defect_df'[n].submission = idx'
          /\ \A d \in Defects :
                Cardinality({n \in (Len(defect_df) + 1)..Len(defect_df') :
                                defect_df'[n].defect = d})
                    = IF d \in defect_log[idx'] THEN 1 ELSE 0]_vars

\* a submission with an unflagged defect has been exported
C17_ExportedWithUnflaggedDefect ==
    /\ Exported
    /\ defect_df # <<>>
    /\ defect_log[idx] # Defects

\* C18: has_close_pair returns True exactly when two different entries of the
\* row differ by at most 1, and False for a row with a single entry.
C18_TwoDifferentEntriesClose ==
    pair_pc = "done" =>
        (close_pair <=>
            \E a, b \in DOMAIN row_values :
                a # b /\ Abs(row_values[a] - row_values[b]) <= 1)

\* the survey filter has been applied
FilterApplied ==
    nb = "survey_sample_collection" /\ pc \in {"sample", "export", "done", "error"}

\* C19: after the survey filter every kept submission has at least two flagged
\* defects, two of which have severities that differ by at most one.
C19_KeptHaveCloseSeverities ==
    FilterApplied =>
        \A i \in Range(log) :
            /\ Cardinality(defect_log[i]) >= 2
            /\ \E a, b \in defect_log[i] :
                  a # b /\ Abs(Severity[a] - Severity[b]) <= 1

\* "keep only items with at least 100 (correct) submission"
MinSubmissions == 100

\* C20: after the item filter every kept item has at least 100 submissions in
\* the loaded log, and every row of the log belongs to a kept item.
C20_KeptItemsHaveEnoughSubmissions ==
    pc # "load" =>
        /\ \A it \in items :
              Cardinality({i \in LoadedLabels : log_csv[i].item = it})
                  >= MinSubmissions
        /\ \A i \in Range(log) : log_csv[i].item \in items

\* the log has been loaded
Loaded == pc \notin {"idle", "load"}

C22_DefectLogSharesIndex ==
    Loaded =>
        /\ DOMAIN defect_log = Range(log)
        /\ \A a, b \in 1..Len(log) : log[a] = log[b] => a = b
        /\ \A i \in Range(log) : defect_log[i] = message_log[i]

\* the log holds a submission without messages, and a submission with
\* messages has been left out of it
C22_RowWithoutMessages ==
    /\ Loaded
    /\ \E i \in Range(log) : message_log[i] = {}
    /\ \E j \in 1..Len(log_csv) : j \notin Range(log) /\ message_log[j] # {}

\* C23: in the cumulative histogram the bar labelled '<=i' ('0' for i = 0)
\* holds the number of submissions with at most i distinct defects, for every
\* i from 0 to the largest defect count.
C23_BarsAreCumulative ==
    hist_pc = "cumulative" =>
        /\ Len(bars) = Max(Range(sums)) + 1
        /\ \A i \in 0..Max(Range(sums)) :
              bars[i + 1] = Cardinality({k \in 1..Len(sums) : sums[k] <= i})

\* C24: in the submissions histogram the bar labelled i (i = 0..4) holds the
\* number of submissions with exactly i distinct defects and the bar '>=5'
\* the number of submissions with five or more.
C24_BarsCountExactly ==
    hist_pc = "submissions" =>
        /\ \A i \in 0..(Shown - 1) : bars[i + 1] = Occurrences(sums, i)
        /\ bars[Shown + 1] =
              Cardinality({k \in 1..Len(sums) : sums[k] >= Shown})

\* C25: after the four assignments a count v is at level 0 if v < 100, 1 if
\* 100 <= v < 250, 2 if 250 <= v < 1000 and 3 if v >= 1000, and a level stays
\* as it is once its assignment has written it.
C25_LevelsMatchLabels ==
    /\ (thresh_pc \in {"ge1000", "ge250", "ge100", "done"}
            /\ co_occurances < Low) => thresholded = 0
    /\ (thresh_pc \in {"ge250", "ge100", "done"}
            /\ co_occurances >= High) => thresholded = 3
    /\ (thresh_pc \in {"ge100", "done"}
            /\ co_occurances >= Mid /\ co_occurances < High) => thresholded = 2
    /\ (thresh_pc = "done"
            /\ co_occurances >= Low /\ co_occurances < Mid) => thresholded = 1

\* a count at a threshold has gone through all four assignments
C25_BoundaryCountDone ==
    /\ thresh_pc = "done"
    /\ co_occurances = Mid
    /\ thresholded = 2

\* C26: before normalisation each bucket c < MAX_COUNT of a defect holds the
\* number of submissions with exactly c instances of it and the last bucket
\* the number with MAX_COUNT or more, so the buckets of a defect sum to the
\* number of submissions that contain it.
C26_BucketsHoldCounts ==
    dist_pc = "done" =>
        \A d \in CountedDefects :
            /\ \A c \in 1..(MAX_COUNT - 1) :
                  defect_counts[c].row[d] = WithCount(count_log, d, c)
            /\ (IF Len(defect_counts) >= MAX_COUNT
                THEN defect_counts[MAX_COUNT].row[d] ELSE 0) =
                  Cardinality({k \in 1..Len(count_log) :
                                  count_log[k][d] >= MAX_COUNT})
            /\ SumFrom(defect_counts, 1, d) =
                  Cardinality({k \in 1..Len(count_log) : count_log[k][d] > 0})

====
